---- MODULE Spec2Model ----
(***************************************************************************)
(* Call session protocol engine of the ConversationRelay voice assistant   *)
(* (src/index.js): the session map, the WebSocket message/close handlers   *)
(* and generateAIResponse, as a state machine.                             *)
(*                                                                         *)
(* One step of the model is one uninterrupted run of JavaScript on the     *)
(* event loop: a handler runs from its start, or from the point where an   *)
(* await resumes, to its next await (or to its end).  Inbound events and   *)
(* backend results arrive in any order between such runs.                  *)
(***************************************************************************)
EXTENDS Integers, Sequences, FiniteSets, TLC

\* ---------------------------------------------------------------- bounds
MaxGens == 2        \* prompt handlers that reach the backend, over all connections
MaxChunks == 2      \* chunks with content the backend yields on one stream
MaxArrays == 2      \* history arrays created by setup events
MaxConns == 2       \* WebSocket connections

Conns == 1..MaxConns
Gens == 1..MaxGens
Arrays == 1..MaxArrays
CallSids == {"CA1", "CA2"}
VoicePrompts == {"hello"}

\* ------------------------------------------------------- values of the code
SYSTEM_PROMPT ==
  "You are a helpful voice assistant. Speak naturally, avoid emojis and special characters."
Undefined == "<undefined>"     \* JS undefined/null: not a text, falsy
SystemMessage == [role |-> "system", content |-> SYSTEM_PROMPT]
NoError == [ws |-> 0, reason |-> "none"]

\* the text the backend produces, cut into fragments: the k-th is Fragment(k)
Fragment(k) == IF k % 2 = 1 THEN "a" ELSE "b"
\* what one stream chunk's choices[0]?.delta?.content can be, k fragments so far
ChunkContents(k) == {Undefined, "", Fragment(k + 1)}
\* what completion.choices[0].message.content can be
BatchContents == {Undefined, "", "a", "ab"}

\* a filter that lets a missing content through
OrEmptyKeepsUndefined(content) == content

\* content || ""
OrEmpty(content) == IF content \in {Undefined, ""} THEN "" ELSE content

RECURSIVE JoinWithSpace(_)
\* a join that puts a separator between the tokens
JoinWithSpace(tokens) ==
  IF tokens = <<>> THEN ""
  ELSE IF Len(tokens) = 1 THEN Head(tokens)
  ELSE Head(tokens) \o " " \o JoinWithSpace(Tail(tokens))

RECURSIVE Join(_)
\* responseTokens.join("")
Join(tokens) == IF tokens = <<>> THEN "" ELSE Head(tokens) \o Join(Tail(tokens))

NoTask == [pc |-> "none", ws |-> 0, conversation |-> 0, responseTokens |-> <<>>]

VARIABLES
  USE_STREAMING,  \* process configuration, fixed at start
  sessions,       \* the Map: callSid -> history array (0: no entry)
  heap,           \* the history arrays, by identity
  arrays,         \* number of arrays allocated so far
  ws,             \* per connection: callSid attribute and readyState
  tasks,          \* prompt handlers suspended in generateAIResponse, and finished ones
  gens,           \* number of prompt handlers started so far
  outbound,       \* per connection: the ws.send calls made, in order
  interrupted,    \* generations that were in flight when an interrupt was handled
  idleInterrupt,  \* an interrupt was handled on a connection with nothing in flight
  created,        \* per history array: the connection and callSid of the setup that made it
  unhandled       \* the rejection of a handler's promise nobody catches

vars == <<USE_STREAMING, sessions, heap, arrays, ws, tasks, gens, outbound,
          interrupted, unhandled, idleInterrupt, created>>

\* Node (18+, the documented runtime) ends the process on an unhandled rejection
running == unhandled = NoError

InFlightPcs == {"streaming", "awaitCompletion"}
InFlight(g) == tasks[g].pc \in InFlightPcs

Init ==
  /\ USE_STREAMING \in BOOLEAN
  /\ sessions = [s \in CallSids |-> 0]
  /\ heap = [a \in Arrays |-> <<>>]
  /\ arrays = 0
  /\ ws = [c \in Conns |-> [callSid |-> Undefined, readyState |-> "OPEN"]]
  /\ tasks = [g \in Gens |-> NoTask]
  /\ gens = 0
  /\ outbound = [c \in Conns |-> <<>>]
  /\ interrupted = {}
  /\ unhandled = NoError
  /\ idleInterrupt = FALSE
  /\ created = <<>>

\* a send that goes out on every connection
SendBroadcast(c, token, last, g) ==
  outbound' = [d \in Conns |->
                 Append(outbound[d], [token |-> token, last |-> last, gen |-> g,
                                      readyState |-> ws[d].readyState])]

\* a send that puts the message ahead of those already sent
SendFirst(c, token, last, g) ==
  outbound' = [outbound EXCEPT ![c] =
                 <<[token |-> token, last |-> last, gen |-> g,
                    readyState |-> ws[c].readyState]>> \o @]

\* ws.send(JSON.stringify({type: "text", token, last})) made by generation g
Send(c, token, last, g) ==
  outbound' = [outbound EXCEPT ![c] =
                 Append(@, [token |-> token, last |-> last, gen |-> g,
                            readyState |-> ws[c].readyState])]

\* message.type === "setup"
Setup(c, callSid) ==
  /\ running
  /\ ws[c].readyState = "OPEN"
  /\ arrays < MaxArrays
  /\ arrays' = arrays + 1
  /\ created' = Append(created, [ws |-> c, callSid |-> callSid])
  /\ ws' = [ws EXCEPT ![c].callSid = callSid]
  /\ heap' = [heap EXCEPT ![arrays + 1] = <<SystemMessage>>]
  /\ sessions' = [sessions EXCEPT ![callSid] = arrays + 1]
  /\ UNCHANGED <<USE_STREAMING, tasks, gens, outbound, interrupted, idleInterrupt, unhandled>>

\* sessions.get(ws.callSid)
SessionsGet(callSid) == IF callSid = Undefined THEN 0 ELSE sessions[callSid]

\* message.type === "prompt", up to the first await inside generateAIResponse
Prompt(c, voicePrompt) ==
  /\ running
  /\ ws[c].readyState = "OPEN"
  /\ LET conversation == SessionsGet(ws[c].callSid) IN
     IF conversation = 0
     THEN \* conversation.push on undefined throws a TypeError
          /\ unhandled' = [ws |-> c, reason |-> "TypeError"]
          /\ UNCHANGED <<USE_STREAMING, sessions, heap, arrays, created, ws, tasks, gens,
                         outbound, interrupted, idleInterrupt>>
     ELSE /\ gens < MaxGens
          /\ gens' = gens + 1
          /\ heap' = [heap EXCEPT ![conversation] =
                        Append(@, [role |-> "user", content |-> voicePrompt])]
          /\ tasks' = [tasks EXCEPT ![gens + 1] =
                         [pc |-> IF USE_STREAMING THEN "streaming" ELSE "awaitCompletion",
                          ws |-> c, conversation |-> conversation,
                          responseTokens |-> <<>>]]
          /\ UNCHANGED <<USE_STREAMING, sessions, arrays, created, ws, outbound, interrupted, idleInterrupt,
                         unhandled>>

\* one iteration of  for await (const chunk of stream)
Chunk(g) ==
  /\ running
  /\ tasks[g].pc = "streaming"
  /\ \E delta \in ChunkContents(Len(tasks[g].responseTokens)) :
       LET content == OrEmpty(delta) IN
       IF content # ""
       THEN /\ Len(tasks[g].responseTokens) < MaxChunks
            /\ Send(tasks[g].ws, content, FALSE, g)
            /\ tasks' = [tasks EXCEPT ![g].responseTokens = Append(@, content)]
       ELSE UNCHANGED <<tasks, outbound>>
  /\ UNCHANGED <<USE_STREAMING, sessions, heap, arrays, created, ws, gens, interrupted, idleInterrupt, unhandled>>

\* a push that puts the reply at the front of the history
PushAssistantFirst(g, response) ==
  heap' = [heap EXCEPT ![tasks[g].conversation] =
             <<[role |-> "assistant", content |-> response]>> \o @]

\* conversation.push({role: "assistant", content: response}) after the await
PushAssistant(g, response) ==
  heap' = [heap EXCEPT ![tasks[g].conversation] =
             Append(@, [role |-> "assistant", content |-> response])]

\* the stream ends: completion signal, return, and the handler's push
StreamEnd(g) ==
  /\ running
  /\ tasks[g].pc = "streaming"
  /\ Send(tasks[g].ws, "", TRUE, g)
  /\ PushAssistant(g, Join(tasks[g].responseTokens))
  /\ tasks' = [tasks EXCEPT ![g].pc = "done"]
  /\ UNCHANGED <<USE_STREAMING, sessions, arrays, created, ws, gens, interrupted, idleInterrupt, unhandled>>

\* the non-streaming create() call resolves: send at once, return, push
Completion(g, response) ==
  /\ running
  /\ tasks[g].pc = "awaitCompletion"
  /\ Send(tasks[g].ws, response, TRUE, g)
  /\ PushAssistant(g, response)
  /\ tasks' = [tasks EXCEPT ![g].pc = "done"]
  /\ UNCHANGED <<USE_STREAMING, sessions, arrays, created, ws, gens, interrupted, idleInterrupt, unhandled>>

\* the backend call rejects, or the stream throws between chunks: nothing catches it
BackendError(g) ==
  /\ running
  /\ InFlight(g)
  /\ tasks' = [tasks EXCEPT ![g].pc = "failed"]
  /\ unhandled' = [ws |-> tasks[g].ws, reason |-> "BackendError"]
  /\ UNCHANGED <<USE_STREAMING, sessions, heap, arrays, created, ws, gens, outbound, interrupted, idleInterrupt>>

\* an interrupt that also drops the connection's session
InterruptDropsSession(c) ==
  /\ running
  /\ ws[c].readyState = "OPEN"
  /\ interrupted' = interrupted \cup {g \in Gens : InFlight(g) /\ tasks[g].ws = c}
  /\ idleInterrupt' = (idleInterrupt \/ ~\E g \in Gens : InFlight(g) /\ tasks[g].ws = c)
  /\ sessions' = [s \in CallSids |-> IF s = ws[c].callSid THEN 0 ELSE sessions[s]]
  /\ UNCHANGED <<USE_STREAMING, heap, arrays, created, ws, tasks, gens, outbound,
                 unhandled>>

\* an interrupt that waits behind the connection's outstanding generation
InterruptQueued(c) ==
  /\ running
  /\ ws[c].readyState = "OPEN"
  /\ ~\E g \in Gens : InFlight(g) /\ tasks[g].ws = c
  /\ idleInterrupt' = TRUE
  /\ UNCHANGED <<USE_STREAMING, sessions, heap, arrays, created, ws, tasks, gens,
                 outbound, interrupted, unhandled>>

\* message.type == 'interrupt': a log line only
Interrupt(c) ==
  /\ running
  /\ ws[c].readyState = "OPEN"
  /\ interrupted' = interrupted \cup {g \in Gens : InFlight(g) /\ tasks[g].ws = c}
  /\ idleInterrupt' = (idleInterrupt \/ ~\E g \in Gens : InFlight(g) /\ tasks[g].ws = c)
  /\ UNCHANGED <<USE_STREAMING, sessions, heap, arrays, created, ws, tasks, gens, outbound,
                 unhandled>>

\* a delete that empties the map when the key is absent
SessionsDeleteOrClear(callSid) ==
  IF callSid = Undefined \/ sessions[callSid] = 0
  THEN [s \in CallSids |-> 0]
  ELSE [sessions EXCEPT ![callSid] = 0]

\* a delete that leaves the entry in place
SessionsDeleteNothing(callSid) == sessions

\* sessions.delete(ws.callSid)
SessionsDelete(callSid) ==
  IF callSid = Undefined THEN sessions ELSE [sessions EXCEPT ![callSid] = 0]

\* ws.on("close")
Close(c) ==
  /\ running
  /\ ws[c].readyState = "OPEN"
  /\ ws' = [ws EXCEPT ![c].readyState = "CLOSED"]
  /\ sessions' = SessionsDelete(ws[c].callSid)
  /\ UNCHANGED <<USE_STREAMING, heap, arrays, created, tasks, gens, outbound, interrupted, idleInterrupt,
                 unhandled>>

Next ==
  \/ \E c \in Conns, callSid \in CallSids : Setup(c, callSid)
  \/ \E c \in Conns, voicePrompt \in VoicePrompts : Prompt(c, voicePrompt)
  \/ \E g \in Gens : Chunk(g)
  \/ \E g \in Gens : StreamEnd(g)
  \/ \E g \in Gens, response \in BatchContents : Completion(g, response)
  \/ \E g \in Gens : BackendError(g)
  \/ \E c \in Conns : Interrupt(c)
  \/ \E c \in Conns : Close(c)

Spec == Init /\ [][Next]_vars

\* ------------------------------------------------------------ the claims
RECURSIVE Concat(_)
\* the in-order concatenation of texts, nothing added
Concat(texts) ==
  IF texts = <<>> THEN ""
  ELSE IF Len(texts) = 1 THEN Head(texts)
  ELSE Head(texts) \o Concat(Tail(texts))

Last(seq) == seq[Len(seq)]
\* the messages generation g sent, in the order of the ws.send calls
GenOut(g) ==
  IF tasks[g].pc = "none" THEN <<>>
  ELSE SelectSeq(outbound[tasks[g].ws], LAMBDA m : m.gen = g)
TokensOf(msgs) == [i \in 1..Len(msgs) |-> msgs[i].token]
Started(a) == {g \in Gens : tasks[g].pc # "none" /\ tasks[g].conversation = a}
Completed(a) == {g \in Gens : tasks[g].pc = "done" /\ tasks[g].conversation = a}
Running(a) == {g \in Gens : InFlight(g) /\ tasks[g].conversation = a}
Stored == {sessions[s] : s \in CallSids} \ {0}
\* system, then (user, assistant) pairs
Paired(h) ==
  /\ Len(h) % 2 = 1
  /\ h[1] = SystemMessage
  /\ \A i \in 2..Len(h) : h[i].role = IF i % 2 = 0 THEN "user" ELSE "assistant"
IsFragment(m) == m.token \notin {"", Undefined} /\ ~m.last
IsMarker(m) == m.token = "" /\ m.last

\* C1: whenever every turn started on a stored history has completed, the
\* history is the system message followed by one (user, assistant) pair per
\* completed turn, also when prompts arrived while a generation was outstanding.
C1_HistoryAlternates ==
  \A a \in Stored :
    Started(a) = Completed(a) =>
      /\ Len(heap[a]) = 1 + 2 * Cardinality(Completed(a))
      /\ Paired(heap[a])

C4_StoredIsConcatenation ==
  /\ [][\A g \in Gens :
          (InFlight(g) /\ tasks'[g].pc = "done") =>
            heap'[tasks[g].conversation] =
              Append(heap[tasks[g].conversation],
                     [role |-> "assistant", content |-> Concat(TokensOf(GenOut(g)'))])]_vars
  /\ [](\A a \in Arrays :
          Cardinality({i \in 1..Len(heap[a]) : heap[a][i].role = "assistant"})
            = Cardinality(Completed(a)))

C4_Witness ==
  \E g \in Gens :
    /\ tasks[g].pc = "done"
    /\ Len(GenOut(g)) = 3
    /\ \E i \in 1..Len(heap[tasks[g].conversation]) :
         heap[tasks[g].conversation][i] = [role |-> "assistant", content |-> "ab"]

\* C5: a call session never has two generations in flight at the same time.
C5_OneInFlight ==
  \A a \in Stored : Cardinality(Running(a)) <= 1

\* C6: once an interrupt has been handled while a generation was in flight,
\* that generation sends nothing more, neither a fragment nor the marker.
C6_InterruptCancels ==
  [][\A g \in interrupted : GenOut(g)' = GenOut(g)]_vars

\* C7: no message of a Streaming generation is sent on its connection after
\* the connection's close event has been handled.
C7_NoSendAfterClose ==
  USE_STREAMING =>
    \A c \in Conns : \A i \in 1..Len(outbound[c]) :
      outbound[c][i].readyState = "OPEN"

\* C8: handling a connection's close leaves the store without an entry for
\* the connection's call identifier, and no later step of a handler of that
\* connection (its generation going on or completing) changes the store: the
\* map is left as it is, and so is any history the map holds for that identifier.
C8_CloseRemovesForGood ==
  [][/\ \A c \in Conns :
          (ws[c].readyState = "OPEN" /\ ws'[c].readyState = "CLOSED") =>
            SessionsGet(ws[c].callSid)' = 0
     /\ \A g \in Gens :
          (InFlight(g) /\ ws[tasks[g].ws].readyState = "CLOSED"
             /\ (tasks'[g] # tasks[g] \/ GenOut(g)' # GenOut(g))) =>
            /\ sessions' = sessions
            /\ LET a == SessionsGet(ws[tasks[g].ws].callSid) IN
                 a # 0 => heap'[a] = heap[a]]_vars

C8_Witness ==
  \E g \in Gens :
    /\ tasks[g].pc = "done"
    /\ Last(GenOut(g)).readyState = "CLOSED"
    /\ ws[tasks[g].ws].callSid # Undefined
    /\ Len(heap[tasks[g].conversation]) = 3

\* C9: a prompt on a connection whose call identifier has no session in the
\* store is dropped: no store change, no message, no generation, no failure.
C9_UnknownPromptDropped ==
  [][\A c \in Conns :
       (SessionsGet(ws[c].callSid) = 0 /\ \E p \in VoicePrompts : Prompt(c, p)) =>
         UNCHANGED <<sessions, heap, outbound, tasks, unhandled>>]_vars

\* C10: no failure while handling one call's event ends the process or is
\* left as an unhandled error.
C10_NoUnhandledFailure ==
  unhandled = NoError

\* the call identifiers connection c has set up so far
UsedIds(c) == {created[a].callSid : a \in {i \in 1..Len(created) : created[i].ws = c}}
CreatedBy(c) == {a \in 1..Len(created) : created[a].ws = c}
OnConn(c) == {g \in Gens : tasks[g].pc # "none" /\ tasks[g].ws = c}
Idle(c) == ~\E g \in Gens : InFlight(g) /\ tasks[g].ws = c
Markers(g) == {i \in 1..Len(GenOut(g)) : GenOut(g)[i].last}
\* a step of the call on connection c: an event on it, or progress of a generation of it
StepOf(c) ==
  \/ \E callSid \in CallSids : Setup(c, callSid)
  \/ \E voicePrompt \in VoicePrompts : Prompt(c, voicePrompt)
  \/ Interrupt(c)
  \/ Close(c)
  \/ \E g \in OnConn(c) :
       \/ Chunk(g)
       \/ StreamEnd(g)
       \/ \E response \in BatchContents : Completion(g, response)
       \/ BackendError(g)

\* C11: when the backend fails for a generation, the failing step appends
\* nothing to any history, starts no new generation and leaves the messages
\* already sent in place, and the history of the failed turn then ends with
\* that turn's user message.
C11_FailedTurnEndsWithUser ==
  /\ [][\A g \in Gens :
          (InFlight(g) /\ tasks'[g].pc = "failed") =>
            heap' = heap /\ gens' = gens /\ outbound' = outbound]_vars
  /\ [](\A g \in Gens :
          tasks[g].pc = "failed" => Last(heap[tasks[g].conversation]).role = "user")

\* C12: a generation that has ended, by completion or by a backend failure, on
\* a connection that is still open and without having been interrupted, has
\* sent exactly one end-of-turn marker (last = true).
C12_EndedTurnHasOneMarker ==
  \A g \in Gens :
    (tasks[g].pc \in {"done", "failed"} /\ g \notin interrupted
       /\ ws[tasks[g].ws].readyState = "OPEN") =>
      Cardinality(Markers(g)) = 1

\* C13: a setup for a call identifier that already has a session leaves that
\* session's history as it was.
C13_DuplicateSetupKeepsHistory ==
  [][\A c \in Conns, callSid \in CallSids :
       (sessions[callSid] # 0 /\ Setup(c, callSid)) =>
         /\ sessions'[callSid] # 0
         /\ heap'[sessions'[callSid]] = heap[sessions[callSid]]]_vars

\* C14: an interrupt handled while no generation of the connection is in
\* flight sends nothing and changes nothing: store, histories, the connection's
\* call identifier, handlers.
C14_IdleInterruptNoOp ==
  [][\A c \in Conns :
       (Idle(c) /\ Interrupt(c)) =>
         UNCHANGED <<sessions, heap, ws, outbound, tasks, gens, arrays, unhandled>>]_vars

C14_Witness ==
  /\ idleInterrupt
  /\ \E c \in Conns : Idle(c) /\ ws[c].readyState = "OPEN"
       /\ SessionsGet(ws[c].callSid) # 0
       /\ Len(heap[SessionsGet(ws[c].callSid)]) = 3

\* C15: for two connections whose calls never used a common call identifier,
\* a step of one (an event on it or progress of one of its generations)
\* leaves the other's connection, outbound messages, store entries and
\* histories as they were.
C15_CallsIndependent ==
  [][\A c, d \in Conns :
       (c # d /\ StepOf(c) /\ UsedIds(c)' \cap UsedIds(d)' = {}) =>
         /\ outbound'[d] = outbound[d]
         /\ ws'[d] = ws[d]
         /\ \A g \in OnConn(d) : tasks'[g] = tasks[g]
         /\ \A callSid \in UsedIds(d) : sessions'[callSid] = sessions[callSid]
         /\ \A a \in CreatedBy(d) : heap'[a] = heap[a]]_vars

C15_Witness ==
  \E c, d \in Conns :
    /\ c # d
    /\ UsedIds(c) # {} /\ UsedIds(d) # {} /\ UsedIds(c) \cap UsedIds(d) = {}
    /\ \E g \in OnConn(c) : tasks[g].pc = "done"
    /\ \E g \in OnConn(d) : tasks[g].pc = "done"
    /\ \A a \in CreatedBy(c) \cup CreatedBy(d) : Len(heap[a]) = 3
    /\ outbound[c] # <<>> /\ outbound[d] # <<>>

\* C16: a close whose call identifier has no entry in the store (never set
\* up, or already deleted) changes neither the store nor any history and
\* raises no error.
C16_DeleteAbsentNoOp ==
  [][\A c \in Conns :
       (ws[c].readyState = "OPEN" /\ ws'[c].readyState = "CLOSED"
          /\ SessionsGet(ws[c].callSid) = 0) =>
         sessions' = sessions /\ heap' = heap /\ unhandled' = unhandled]_vars

C16_Witness ==
  \E c, d \in Conns :
    /\ c # d
    /\ ws[c].readyState = "CLOSED" /\ ws[c].callSid = Undefined
    /\ ws[d].readyState = "OPEN" /\ SessionsGet(ws[d].callSid) # 0
    /\ Len(outbound[d]) > 0 /\ outbound[d][1].readyState = "OPEN"
    /\ Len(heap[SessionsGet(ws[d].callSid)]) = 3

\* C17: while a generation is outstanding, an interrupt or a close of its own
\* connection and any event of every open connection can be handled at once,
\* and handling it leaves the generation outstanding.
C17_EventsNotBlocked ==
  \A g \in Gens :
    (running /\ InFlight(g)) =>
      \A c \in Conns :
        ws[c].readyState = "OPEN" =>
          /\ ENABLED (Interrupt(c) /\ InFlight(g)')
          /\ ENABLED (Close(c) /\ InFlight(g)')
          /\ arrays < MaxArrays =>
               \A callSid \in CallSids : ENABLED (Setup(c, callSid) /\ InFlight(g)')
          /\ (gens < MaxGens /\ SessionsGet(ws[c].callSid) # 0) =>
               \A voicePrompt \in VoicePrompts :
                 ENABLED (Prompt(c, voicePrompt) /\ InFlight(g)')

C17_Witness ==
  \E g \in Gens :
    /\ InFlight(g)
    /\ g \in interrupted
    /\ ws[tasks[g].ws].readyState = "CLOSED"
    /\ \E h \in Gens : h > g /\ tasks[h].pc = "done" /\ tasks[h].ws # tasks[g].ws

\* C18: a generation for which the backend returned no content appends no
\* assistant message and sends no message with a null token: no stored
\* assistant message is empty or null, and no token sent is null.
C18_EmptyResponseFails ==
  /\ \A a \in Arrays : \A i \in 1..Len(heap[a]) :
       heap[a][i].role = "assistant" => heap[a][i].content \notin {"", Undefined}
  /\ \A c \in Conns : \A i \in 1..Len(outbound[c]) :
       outbound[c][i].token # Undefined

\* C19: every history the store holds is non-empty and starts with the system
\* message, a setup leaves exactly [system] under its call identifier, and no
\* step changes the first message of a history.
C19_SystemMessageFirst ==
  /\ [](\A a \in Stored : Len(heap[a]) >= 1 /\ heap[a][1] = SystemMessage)
  /\ [][/\ \A callSid \in CallSids :
             (sessions'[callSid] # sessions[callSid] /\ sessions'[callSid] # 0) =>
               heap'[sessions'[callSid]] = <<SystemMessage>>
        /\ \A a \in Arrays :
             Len(heap[a]) >= 1 => (Len(heap'[a]) >= Len(heap[a]) /\ heap'[a][1] = heap[a][1])]_vars

C19_Witness ==
  \E a \in Stored : Len(heap[a]) = 5 /\ heap[a][1] = SystemMessage

\* C20: once a connection's close has been handled the store holds no session
\* that the connection created.
C20_NoSessionOutlivesConnection ==
  \A a \in Stored : ws[created[a].ws].readyState = "OPEN"

====
